---- MODULE Spec2Model ----
(***************************************************************************)
(* State-machine model of the MLX90621 MicroPython driver                  *)
(* (src/mlx90621.py): the wraparound codecs, the register helpers, the     *)
(* calibration retry loop of mlx90621_init and the frame read of           *)
(* mlx90621_read_ir, stepped one bus operation / one pixel at a time.      *)
(*                                                                         *)
(* Floats are modelled exactly where the code's control flow depends on    *)
(* them: a coefficient is a rational <<num, den>>, the ambient             *)
(* temperature is the symbolic root (-b + sqrt(d)) / (2a) + 25 of the      *)
(* scaled quadratic, and every comparison / zero test is decided in        *)
(* integer arithmetic.  The object temperature itself (a fourth root) is   *)
(* kept as the term of the inputs it is computed from.                     *)
(***************************************************************************)
EXTENDS Integers, Naturals, Sequences, FiniteSets, TLC

(***************************************************************************)
(* Integer helpers for Python's bit operators on non-negative ints.        *)
(***************************************************************************)
RECURSIVE Pow2(_)
Pow2(n) == IF n <= 0 THEN 1 ELSE 2 * Pow2(n - 1)

RECURSIVE BitAnd(_, _)
BitAnd(a, b) ==
    IF a = 0 \/ b = 0 THEN 0
    ELSE 2 * BitAnd(a \div 2, b \div 2) + (IF a % 2 = 1 /\ b % 2 = 1 THEN 1 ELSE 0)

RECURSIVE BitOr(_, _)
BitOr(a, b) ==
    IF a = 0 THEN b
    ELSE IF b = 0 THEN a
    ELSE 2 * BitOr(a \div 2, b \div 2) + (IF a % 2 = 1 \/ b % 2 = 1 THEN 1 ELSE 0)

Shl(a, n) == a * Pow2(n)

Shr(a, n) == a \div Pow2(n)

RECURSIVE ISqrtIn(_, _, _)
ISqrtIn(n, lo, hi) ==
    IF hi - lo <= 1 THEN lo
    ELSE LET mid == (lo + hi) \div 2
         IN  IF mid * mid <= n THEN ISqrtIn(n, mid, hi) ELSE ISqrtIn(n, lo, mid)

ISqrt(n) == ISqrtIn(n, 0, 46341)

(***************************************************************************)
(* Numeric codec: one conditional adjustment by the width's period.        *)
(***************************************************************************)
_uint16_t(number) ==
    LET imin == 0
        imax == 65535
    IN  IF number < imin THEN number + (1 + imax - imin)
        ELSE IF number > imax THEN number - (1 + imax - imin)
        ELSE number

_int16_t(number) ==
    LET imin == -32768
        imax == 32767
    IN  IF number < imin THEN number + (1 + imax - imin)
        ELSE IF number > imax THEN number - (1 + imax - imin)
        ELSE number

_uint8_t(number) ==
    LET imin == 0
        imax == 255
    IN  IF number < imin THEN number + (1 + imax - imin)
        ELSE IF number > imax THEN number - (1 + imax - imin)
        ELSE number

_int8_t(number) ==
    LET imin == -128
        imax == 127
    IN  IF number < imin THEN number + (1 + imax - imin)
        ELSE IF number > imax THEN number - (1 + imax - imin)
        ELSE number

_twos_16(high_byte, low_byte) == _int16_t(_uint16_t(256 * high_byte + low_byte))

(***************************************************************************)
(* Bounds of the model and the data the bus may deliver.                   *)
(***************************************************************************)
MaxCalls == 3

MaxFaults == 1

Rows == 4

Cols == 16

NPixels == Rows * Cols

Image(ov) == [a \in 0 .. 255 |-> IF a \in DOMAIN ov THEN ov[a] ELSE 0]

PixelBytes == [a \in 0 .. 63 |-> a] @@ [a \in 128 .. 191 |-> 1]

\* Calibration bytes of a device whose ambient temperature is 25 degC at
\* PTAT = 1000: K_T1 = 300 / 2^10, K_T2 = 1 / 2^10, V_TH = 1000.
CalBytes ==
    (208 :> 246) @@ (209 :> 255) @@ (210 :> 160) @@ (211 :> 254) @@ (212 :> 255)
    @@ (213 :> 252) @@ (214 :> 64) @@ (215 :> 0) @@ (216 :> 32) @@ (217 :> 33)
    @@ (218 :> 232) @@ (219 :> 3) @@ (220 :> 44) @@ (221 :> 1) @@ (222 :> 1)
    @@ (223 :> 0) @@ (224 :> 64) @@ (225 :> 0) @@ (226 :> 2) @@ (227 :> 0)
    @@ (228 :> 0) @@ (229 :> 128) @@ (230 :> 16) @@ (231 :> 0)
    @@ (245 :> 59) @@ (246 :> 70) @@ (247 :> 82)

EepromGood == Image(CalBytes @@ PixelBytes)

\* emissivity bytes 0xE4, 0xE5 both zero
EepromNoEmissivity == Image((229 :> 0) @@ CalBytes @@ PixelBytes)

\* sensitivity byte of pixel ref_index 5 zero: alpha_ij = tgc * alpha_cp there
EepromDeadPixel == Image((133 :> 0) @@ CalBytes @@ PixelBytes)

\* K_T2 bytes 0xDE, 0xDF both zero
EepromNoKt2 == Image((222 :> 0) @@ CalBytes @@ PixelBytes)

EepromReads == {EepromGood, EepromNoEmissivity, EepromDeadPixel, EepromNoKt2}

Bytes2(b0, b1) == (0 :> b0) @@ (1 :> b1)

\* config[0], config[1] as read during initialisation (resolution 3 or 2, the
\* POR flag set) and as read by the flag poll (resolution 3, flag set or clear)
InitConfigReads == {Bytes2(59, 70), Bytes2(43, 70)}

PollConfigReads == {Bytes2(59, 70), Bytes2(59, 66)}

\* PTAT_BYTES[0], PTAT_BYTES[1]: PTAT = 978, 985, 1000, 1020
PtatReads == {Bytes2(210, 3), Bytes2(217, 3), Bytes2(232, 3), Bytes2(252, 3)}

VcpReads == {Bytes2(255, 255)}

FrameReads == {[b \in 0 .. 127 |-> IF b % 2 = 0 THEN b \div 2 ELSE 0],
               [b \in 0 .. 127 |-> 255]}

DriverRates == {8}

Rates == {512, 256, 128, 64, 32, 16, 8, 4, 2, 1, 0, 3, 7, 1024, -1}

CodecInputs == (-700 .. 700) \cup {n * 32768 + e : n \in -5 .. 5, e \in {-1, 0, 1}}

(***************************************************************************)
(* Register helpers: the byte sequences written to the sensor.             *)
(***************************************************************************)
_mlx90621_write_trim(trim_val) ==
    <<4, _uint8_t(trim_val - 170), trim_val, _uint8_t(0 - 170), 0>>

_mlx90621_write_config(lsb, msb) ==
    <<3, _uint8_t(lsb - 85), lsb, _uint8_t(msb - 85), msb>>

read_config == <<2, 146, 0, 1>>

read_ptat == <<2, 64, 0, 1>>

compensation_pixel_read == <<2, 65, 0, 1>>

ir_whole_frame_read == <<2, 0, 1, 64>>

RateBitsDefaultHalfHz(hz) ==
    IF hz = 512 THEN 0
    ELSE IF hz = 256 THEN 6
    ELSE IF hz = 128 THEN 7
    ELSE IF hz = 64 THEN 8
    ELSE IF hz = 32 THEN 9
    ELSE IF hz = 16 THEN 10
    ELSE IF hz = 8 THEN 11
    ELSE IF hz = 4 THEN 12
    ELSE IF hz = 2 THEN 13
    ELSE IF hz = 1 THEN 14
    ELSE 15

rate_bits(hz) ==
    IF hz = 512 THEN 0
    ELSE IF hz = 256 THEN 6
    ELSE IF hz = 128 THEN 7
    ELSE IF hz = 64 THEN 8
    ELSE IF hz = 32 THEN 9
    ELSE IF hz = 16 THEN 10
    ELSE IF hz = 8 THEN 11
    ELSE IF hz = 4 THEN 12
    ELSE IF hz = 2 THEN 13
    ELSE IF hz = 1 THEN 14
    ELSE IF hz = 0 THEN 15
    ELSE 11

\* the configuration write of _mlx90621_set_refresh_hz
RefreshWrite(hz) ==
    LET config_msb == 70
        config_lsb == BitOr(Shl(3, 4), rate_bits(hz))
    IN  _mlx90621_write_config(config_lsb, config_msb)

_mlx90621_ptat(P) == BitOr(Shl(P[1], 8), P[0])

PorInverted(c) == BitAnd(c[1], 4) # 4

\* the value _mlx90621_por returns for configuration bytes c
_mlx90621_por(c) == BitAnd(c[1], 4) = 4

\* resolution as mlx90621_init reads it from the configuration bytes
Resolution(c) == Shr(BitAnd(BitOr(Shl(c[1], 8), c[0]), 48), 4)

(***************************************************************************)
(* Calibration engine.                                                     *)
(*                                                                         *)
(* _mlx90621_ta: with rc = 2^(3 - resolution) the code solves              *)
(*   k_t2 x^2 + k_t1 x + (v_th - ptat) = 0,  ta = x + 25,                  *)
(*   k_t1 = KT1 / (2^s1 rc), k_t2 = KT2 / (2^s2 rc), v_th = VTH / rc,      *)
(* on the branch x = (-k_t1 + sqrt(disc)) / (2 k_t2).  Multiplying the     *)
(* three coefficients by rc * 2^max(s1, s2) leaves x unchanged and makes   *)
(* them the integers a, b, c below; d = b^2 - 4ac has the sign of the      *)
(* code's discriminant.  The result is the outcome of the return           *)
(* expression: "zerodiv" (2 * k_t2 = 0), "complex" (d < 0, a negative      *)
(* float to the power 0.5) or the real root "num".                         *)
(***************************************************************************)
Max(x, y) == IF x >= y THEN x ELSE y

_mlx90621_ta(E, resolution, ptat) ==
    LET resolution_comp == Pow2(3 - resolution)
        k_t1_scale == _int16_t(Shr(BitAnd(E[210], 240), 4))
        k_t2_scale == _int16_t(BitAnd(E[210], 15) + 10)
        m == Max(k_t1_scale, k_t2_scale)
        a == _twos_16(E[223], E[222]) * Pow2(m - k_t2_scale)
        b == _twos_16(E[221], E[220]) * Pow2(m - k_t1_scale)
        c == (_twos_16(E[219], E[218]) - ptat * resolution_comp) * Pow2(m)
        d == b * b - 4 * a * c
    IN  IF d < 0 THEN [k |-> "complex", a |-> a, b |-> b, d |-> d]
        ELSE IF a = 0 THEN [k |-> "zerodiv", a |-> a, b |-> b, d |-> d]
        ELSE [k |-> "num", a |-> a, b |-> b, d |-> d]

\* self.ta = -9999
Sentinel == [k |-> "int", a |-> 1, b |-> -9999, d |-> 0]

NoTa == [k |-> "unset", a |-> 0, b |-> 0, d |-> 0]

\* t > n and t < n for a real ambient value t ("int" or "num") and an integer
\* n: for the root, x > n - 25 is decided by comparing sqrt(d) with
\* r = 2a(n - 25) + b, the inequality flipping with the sign of a.
TaGt(t, n) ==
    IF t.k = "int" THEN t.b > n
    ELSE LET r == 2 * t.a * (n - 25) + t.b
         IN  IF t.a > 0 THEN r < 0 \/ t.d > r * r
             ELSE r > 0 /\ t.d < r * r

TaLt(t, n) ==
    IF t.k = "int" THEN t.b < n
    ELSE LET r == 2 * t.a * (n - 25) + t.b
         IN  IF t.a > 0 THEN r > 0 /\ t.d < r * r
             ELSE r < 0 \/ t.d > r * r

LoopCondNoLower(t) == TaGt(t, 60)

\* the retry loop's condition, for a real t
LoopCond(t) == TaGt(t, 60) \/ TaLt(t, -40)

NoCal == [set |-> FALSE]

CalResolutionCompNoOffset(resolution) == Pow2(resolution)

\* self.resolution_comp = (2.0 ** (3 - resolution))
CalResolutionComp(resolution) == Pow2(3 - resolution)

\* the assignments after the retry loop; a float is the pair <<num, den>>
DeriveCal(E, resolution) ==
    LET resolution_comp == CalResolutionComp(resolution)
        b_i_scale == _int16_t(BitAnd(E[217], 15))
    IN  [set |-> TRUE,
         resolution_comp |-> resolution_comp,
         emissivity |-> <<BitOr(Shl(E[229], 8), E[228]), 32768>>,
         a_common |-> _twos_16(E[209], E[208]),
         a_i_scale |-> _int16_t(Shr(BitAnd(E[217], 240), 4)),
         b_i_scale |-> b_i_scale,
         alpha_cp |-> _uint16_t(BitOr(Shl(E[215], 8), E[214])
                                 \div (Pow2(E[226]) * resolution_comp)),
         a_cp |-> <<_twos_16(E[212], E[211]), resolution_comp>>,
         b_cp |-> <<_int8_t(E[213]), Pow2(b_i_scale) * resolution_comp>>,
         tgc |-> <<_int8_t(E[216]), 32>>]

(***************************************************************************)
(* Compensation engine: what one iteration of the pixel loop does.         *)
(***************************************************************************)
\* alpha_ij - tgc * alpha_cp = 0, both sides cleared of their denominators
AlphaDiffZero(E, c, ref_index) ==
    32 * (BitOr(Shl(E[225], 8), E[224]) * Pow2(E[227]) + E[128 + ref_index] * Pow2(E[226]))
        = c.tgc[1] * c.alpha_cp * c.resolution_comp * Pow2(E[226] + E[227])

\* 1 + ksta * (ta - 25) = 0 with ksta = KS / 2^20: for the root this needs
\* KS * sqrt(d) = KS * b - 2^21 * a, so d must be a perfect square
KstaFactorZero(E, t) ==
    LET KS == _twos_16(E[231], E[230])
    IN  IF t.k = "int" THEN Pow2(20) + KS * (t.b - 25) = 0
        ELSE IF t.k = "num"
        THEN /\ KS # 0
             /\ LET r == ISqrt(t.d)
                IN  r * r = t.d /\ KS * r = KS * t.b - Pow2(21) * t.a
        ELSE FALSE

\* the exception one iteration raises before it writes its two cells, or
\* "none": an unset coefficient, a division by a zero emissivity or a zero
\* alpha_comp, int() of a complex temperature
PixelFault(E, c, t, ref_index) ==
    IF ~c.set THEN "AttributeError"
    ELSE IF c.emissivity[1] = 0 THEN "ZeroDivisionError"
    ELSE IF AlphaDiffZero(E, c, ref_index) \/ KstaFactorZero(E, t) THEN "ZeroDivisionError"
    ELSE IF t.k = "complex" THEN "TypeError"
    ELSE "none"

\* the object temperature, as the term of everything it is computed from
To(E, c, t, vir, vcp_, ref_index) ==
    [k |-> "to", px |-> ref_index, vir |-> vir, vcp |-> vcp_, ta |-> t, cal |-> c,
     eb |-> <<E[ref_index], E[64 + ref_index], E[128 + ref_index],
              E[224], E[225], E[226], E[227], E[230], E[231]>>]

ref_index(i, j) == j * 4 + i

ZeroCell == [k |-> "zero"]

(***************************************************************************)
(* State.                                                                  *)
(***************************************************************************)
VARIABLES
    pc,                 \* position of the running call, "idle" between calls
    inRead,             \* mlx90621_init was entered from mlx90621_read_ir
    ncalls,             \* calls made by the user so far
    lastCall,           \* the user's current or last call
    result,             \* how the last call ended: "init_ok", "read_ok" or an exception
    rate,               \* self.rate
    devEeprom,          \* the 256 bytes held by the sensor's EEPROM
    nfaults,            \* bus operations that have failed so far
    EEPROM, config, PTAT_BYTES, VCP_BYTES, ir_pixels,
    temperatures_int, temperatures_flt,
    ta,                 \* self.ta
    cal,                \* the nine coefficients assigned after the retry loop
    resolution,         \* local of mlx90621_init, -1 while unbound
    vcp, px,            \* locals of mlx90621_read_ir; px counts the iterations finished
    tx,                 \* payloads written to the sensor since the attempt/poll began
    stages,             \* history: steps of initialisation since the last poll
    lastPoll,           \* history: bit 2 of config[1] as the last poll of this call read it
    sawClear,           \* history: some poll of this call read that bit as 0
    reinitDone,         \* history: an initialisation run completed inside this read
    taOfSnap,           \* history: self.ta was computed from the current EEPROM snapshot
    calOfSnap,          \* history: cal was derived from the current snapshot and ta
    nderive,            \* history: coefficient assignments in the current init call
    retried,            \* history: the current init call has rejected a computed self.ta
    everInit,           \* history: some mlx90621_init has returned
    gridAtCall,         \* history: the two grids when the current call began
    cin, cout           \* codec input and the four codecs' outputs

ctl == <<pc, inRead, ncalls, lastCall, result>>

bufs == <<EEPROM, config, PTAT_BYTES, VCP_BYTES, ir_pixels>>

grids == <<temperatures_int, temperatures_flt>>

hist == <<lastPoll, sawClear, reinitDone, taOfSnap, calOfSnap, nderive, retried, everInit,
          gridAtCall>>

codec == <<cin, cout>>

dev == <<rate, devEeprom>>

vars == <<ctl, dev, nfaults, bufs, grids, ta, cal, resolution, vcp, px, tx, stages, hist,
          codec>>

NoOut == [u8 |-> 0, i8 |-> 0, u16 |-> 0, i16 |-> 0, done |-> FALSE]

\* the object __init__ builds
Constructed(refresh_rate) ==
    /\ pc = "idle" /\ inRead = FALSE /\ ncalls = 0 /\ lastCall = "none" /\ result = "none"
    /\ rate = refresh_rate /\ nfaults = 0
    /\ EEPROM = [a \in 0 .. 255 |-> 0]
    /\ config = Bytes2(0, 0)
    /\ PTAT_BYTES = Bytes2(0, 0)
    /\ VCP_BYTES = Bytes2(0, 0)
    /\ ir_pixels = [b \in 0 .. 127 |-> 0]
    /\ temperatures_int = [i \in 0 .. Rows - 1 |-> [j \in 0 .. Cols - 1 |-> ZeroCell]]
    /\ temperatures_flt = [i \in 0 .. Rows - 1 |-> [j \in 0 .. Cols - 1 |-> ZeroCell]]
    /\ ta = NoTa /\ cal = NoCal /\ resolution = -1 /\ vcp = 0 /\ px = 0
    /\ tx = <<>> /\ stages = <<>> /\ lastPoll = "none" /\ sawClear = FALSE
    /\ reinitDone = FALSE /\ taOfSnap = FALSE /\ calOfSnap = FALSE /\ nderive = 0
    /\ everInit = FALSE /\ retried = FALSE
    /\ gridAtCall = <<temperatures_int, temperatures_flt>>

Init ==
    /\ \E r \in DriverRates : Constructed(r)
    /\ devEeprom \in EepromReads
    /\ cin = 0 /\ cout = NoOut

(***************************************************************************)
(* An exception leaves the running call and reaches the user.              *)
(***************************************************************************)
Raise(e) ==
    /\ pc' = "idle"
    /\ inRead' = FALSE
    /\ result' = e
    /\ tx' = <<>> /\ stages' = <<>>
    /\ UNCHANGED <<ncalls, lastCall, nfaults>>

\* a bus operation fails: OSError reaches the user
BusFault ==
    /\ nfaults < MaxFaults
    /\ nfaults' = nfaults + 1
    /\ pc' = "idle"
    /\ inRead' = FALSE
    /\ result' = "OSError"
    /\ tx' = <<>> /\ stages' = <<>>
    /\ UNCHANGED <<ncalls, lastCall>>

Goto(l) ==
    /\ pc' = l
    /\ UNCHANGED <<inRead, ncalls, lastCall, result, nfaults>>

\* where mlx90621_init returns to: the while loop of mlx90621_read_ir polls
\* the flag again, a call by the user ends
ReturnToFrameRead(fromRead) == IF fromRead THEN "r_frame" ELSE "idle"

InitReturnsTo(fromRead) == IF fromRead THEN "r_por" ELSE "idle"

\* the successor of the loop test for a real self.ta
ExitWhenAboveRange(t) == IF TaLt(t, -40) THEN "i_eeprom" ELSE "i_derive"

AfterLoopTest(t) == IF LoopCond(t) THEN "i_eeprom" ELSE "i_derive"

(***************************************************************************)
(* mlx90621_init                                                           *)
(***************************************************************************)
\* the user calls mlx90621_init(); self.ta = -9999
CallInit ==
    /\ pc = "idle" /\ ncalls < MaxCalls
    /\ pc' = "i_test" /\ inRead' = FALSE /\ ncalls' = ncalls + 1
    /\ lastCall' = "init" /\ result' = "none"
    /\ ta' = Sentinel /\ taOfSnap' = FALSE /\ nderive' = 0 /\ retried' = FALSE
    /\ tx' = <<>> /\ stages' = <<>> /\ lastPoll' = "none" /\ sawClear' = FALSE
    /\ reinitDone' = FALSE
    /\ gridAtCall' = <<temperatures_int, temperatures_flt>>
    /\ UNCHANGED <<dev, nfaults, bufs, grids, cal, resolution, vcp, px, calOfSnap, everInit,
                   codec>>

\* while (self.ta > 60.0 or self.ta < -40.0): ordering a complex number
\* raises TypeError
LoopTest ==
    /\ pc = "i_test"
    /\ IF ta.k = "complex"
       THEN Raise("TypeError") /\ UNCHANGED retried
       ELSE /\ Goto(AfterLoopTest(ta))
            /\ retried' = (retried \/ (ta.k = "num" /\ AfterLoopTest(ta) = "i_eeprom"))
            /\ UNCHANGED <<tx, stages>>
    /\ UNCHANGED <<dev, bufs, grids, ta, cal, resolution, vcp, px, lastPoll, sawClear,
                   reinitDone, taOfSnap, calOfSnap, nderive, everInit, gridAtCall, codec>>

\* time.sleep_us(50000); self._mlx90621_read_eeprom()
ReadEeprom ==
    /\ pc = "i_eeprom"
    /\ \/ /\ BusFault
          /\ UNCHANGED <<EEPROM, taOfSnap, calOfSnap>>
       \/ /\ Goto("i_trim")
          /\ EEPROM' = devEeprom
          /\ tx' = <<>>
          /\ stages' = SelectSeq(stages, LAMBDA x : x = "wait1s") \o <<"eeprom">>
          /\ taOfSnap' = FALSE /\ calOfSnap' = FALSE
    /\ UNCHANGED <<dev, config, PTAT_BYTES, VCP_BYTES, ir_pixels, grids, ta, cal,
                   resolution, vcp, px, lastPoll, sawClear, reinitDone, nderive, retried,
                   everInit, gridAtCall, codec>>

\* self._mlx90621_write_trim(self.EEPROM[0xF7])
WriteTrim ==
    /\ pc = "i_trim"
    /\ \/ BusFault
       \/ /\ Goto("i_config")
          /\ tx' = Append(tx, _mlx90621_write_trim(EEPROM[247]))
          /\ stages' = Append(stages, "trim")
    /\ UNCHANGED <<dev, bufs, grids, ta, cal, resolution, vcp, px, hist, codec>>

\* self._mlx90621_write_config(self.EEPROM[0xF5], self.EEPROM[0xF6])
WriteConfig ==
    /\ pc = "i_config"
    /\ \/ BusFault
       \/ /\ Goto("i_rate_rd")
          /\ tx' = Append(tx, _mlx90621_write_config(EEPROM[245], EEPROM[246]))
          /\ stages' = Append(stages, "config")
    /\ UNCHANGED <<dev, bufs, grids, ta, cal, resolution, vcp, px, hist, codec>>

\* _mlx90621_set_refresh_hz(self.rate), first half: the rate bits are chosen
\* and the configuration is read
RefreshReadConfig ==
    /\ pc = "i_rate_rd"
    /\ \/ BusFault /\ UNCHANGED config
       \/ /\ Goto("i_rate_wr")
          /\ tx' = Append(tx, read_config)
          /\ config' \in InitConfigReads
          /\ UNCHANGED stages
    /\ UNCHANGED <<dev, EEPROM, PTAT_BYTES, VCP_BYTES, ir_pixels, grids, ta, cal,
                   resolution, vcp, px, hist, codec>>

\* _mlx90621_set_refresh_hz(self.rate), second half: the configuration write
RefreshWriteConfig ==
    /\ pc = "i_rate_wr"
    /\ \/ BusFault
       \/ /\ Goto("i_readback")
          /\ tx' = Append(tx, RefreshWrite(rate))
          /\ stages' = Append(stages, "refresh")
    /\ UNCHANGED <<dev, bufs, grids, ta, cal, resolution, vcp, px, hist, codec>>

\* self._mlx90621_read_config()
ReadBack ==
    /\ pc = "i_readback"
    /\ \/ BusFault /\ UNCHANGED config
       \/ /\ Goto("i_ta")
          /\ tx' = Append(tx, read_config)
          /\ config' \in InitConfigReads
          /\ stages' = Append(stages, "readback")
    /\ UNCHANGED <<dev, EEPROM, PTAT_BYTES, VCP_BYTES, ir_pixels, grids, ta, cal,
                   resolution, vcp, px, hist, codec>>

\* time.sleep_us(10000); resolution = ...; self.ta = self._mlx90621_ta(resolution).
\* A negative float to the power 0.5 is a complex number, or ValueError on a
\* build of the interpreter without complex numbers.
ComputeTa ==
    /\ pc = "i_ta"
    /\ resolution' = Resolution(config)
    /\ \/ /\ BusFault
          /\ UNCHANGED <<PTAT_BYTES, ta, taOfSnap>>
       \/ \E P \in PtatReads :
            LET t == _mlx90621_ta(EEPROM, resolution', _mlx90621_ptat(P))
            IN  /\ PTAT_BYTES' = P
                /\ \/ /\ t.k = "zerodiv"
                      /\ Raise("ZeroDivisionError")
                      /\ UNCHANGED <<ta, taOfSnap>>
                   \/ /\ t.k = "complex"
                      /\ Raise("ValueError")
                      /\ UNCHANGED <<ta, taOfSnap>>
                   \/ /\ t.k \in {"complex", "num"}
                      /\ Goto("i_test")
                      /\ tx' = Append(tx, read_ptat)
                      /\ ta' = t
                      /\ stages' = Append(stages, "ta")
                      /\ taOfSnap' = TRUE
    /\ UNCHANGED <<dev, EEPROM, config, VCP_BYTES, ir_pixels, grids, cal, vcp, px,
                   lastPoll, sawClear, reinitDone, calOfSnap, nderive, retried, everInit,
                   gridAtCall, codec>>

\* the nine assignments after the loop, and the return
Derive ==
    /\ pc = "i_derive"
    /\ cal' = DeriveCal(EEPROM, resolution)
    /\ pc' = InitReturnsTo(inRead)
    /\ result' = IF inRead THEN result ELSE "init_ok"
    /\ reinitDone' = inRead
    /\ stages' = IF inRead THEN Append(stages, "derive") ELSE <<>>
    /\ tx' = IF inRead THEN tx ELSE <<>>
    /\ calOfSnap' = TRUE /\ nderive' = nderive + 1 /\ everInit' = TRUE
    /\ UNCHANGED <<inRead, ncalls, lastCall, dev, nfaults, bufs, grids, ta, resolution, vcp,
                   px, lastPoll, sawClear, taOfSnap, retried, gridAtCall, codec>>

(***************************************************************************)
(* mlx90621_read_ir                                                        *)
(***************************************************************************)
\* the user calls mlx90621_read_ir()
CallReadIr ==
    /\ pc = "idle" /\ ncalls < MaxCalls
    /\ pc' = "r_por" /\ inRead' = TRUE /\ ncalls' = ncalls + 1
    /\ lastCall' = "read_ir" /\ result' = "none"
    /\ tx' = <<>> /\ stages' = <<>> /\ lastPoll' = "none" /\ sawClear' = FALSE
    /\ reinitDone' = FALSE
    /\ gridAtCall' = <<temperatures_int, temperatures_flt>>
    /\ UNCHANGED <<dev, nfaults, bufs, grids, ta, cal, resolution, vcp, px, taOfSnap,
                   calOfSnap, nderive, retried, everInit, codec>>

\* while not self._mlx90621_por(): the configuration is read and its flag tested
PollFlag ==
    /\ pc = "r_por"
    /\ \/ /\ BusFault
          /\ UNCHANGED <<config, lastPoll, sawClear>>
       \/ \E c \in PollConfigReads :
            /\ config' = c
            /\ tx' = <<read_config>>
            /\ stages' = <<>>
            /\ lastPoll' = IF (c[1] \div 4) % 2 = 1 THEN "set" ELSE "clear"
            /\ sawClear' = (sawClear \/ (c[1] \div 4) % 2 = 0)
            /\ IF _mlx90621_por(c) THEN Goto("r_frame") ELSE Goto("r_wait")
    /\ UNCHANGED <<dev, EEPROM, PTAT_BYTES, VCP_BYTES, ir_pixels, grids, ta, cal,
                   resolution, vcp, px, reinitDone, taOfSnap, calOfSnap, nderive, retried,
                   everInit, gridAtCall, codec>>

\* time.sleep(1); self.mlx90621_init() is entered: self.ta = -9999
Reinit ==
    /\ pc = "r_wait"
    /\ Goto("i_test")
    /\ stages' = <<"wait1s">>
    /\ ta' = Sentinel /\ taOfSnap' = FALSE /\ nderive' = 0 /\ retried' = FALSE
    /\ UNCHANGED <<dev, bufs, grids, cal, resolution, vcp, px, tx, lastPoll, sawClear,
                   reinitDone, calOfSnap, everInit, gridAtCall, codec>>

\* self._mlx90621_ir_read()
FrameRead ==
    /\ pc = "r_frame"
    /\ \/ BusFault /\ UNCHANGED ir_pixels
       \/ /\ Goto("r_cp")
          /\ tx' = Append(tx, ir_whole_frame_read)
          /\ ir_pixels' \in FrameReads
          /\ UNCHANGED stages
    /\ UNCHANGED <<dev, EEPROM, config, PTAT_BYTES, VCP_BYTES, grids, ta, cal, resolution,
                   vcp, px, hist, codec>>

\* vcp = self._int16_t(self._mlx90621_cp())
CpRead ==
    /\ pc = "r_cp"
    /\ \/ BusFault /\ UNCHANGED <<VCP_BYTES, vcp>>
       \/ \E V \in VcpReads :
            /\ Goto("r_pixel")
            /\ tx' = Append(tx, compensation_pixel_read)
            /\ VCP_BYTES' = V
            /\ vcp' = _int16_t(BitOr(Shl(V[1], 8), V[0]))
            /\ UNCHANGED stages
    /\ UNCHANGED <<dev, EEPROM, config, PTAT_BYTES, ir_pixels, grids, ta, cal, resolution,
                   px, hist, codec>>

\* the first iteration of the pixel loop that raises, NPixels if none does:
\* iteration number n is i = n div 16, j = n mod 16
FirstFault(E, c, t) ==
    LET faulty == {n \in 0 .. NPixels - 1 :
                     PixelFault(E, c, t, ref_index(n \div Cols, n % Cols)) # "none"}
    IN  IF faulty = {} THEN NPixels
        ELSE CHOOSE n \in faulty : \A o \in faulty : n <= o

\* the loops over i in range(4), j in range(16), run to their end or to the
\* first iteration that raises; an iteration that raises has not written
\* its cells
PixelLoop ==
    /\ pc = "r_pixel"
    /\ \E stop \in {FirstFault(EEPROM, cal, ta)} :
         LET vir(r) == _int16_t(BitOr(Shl(ir_pixels[r * 2 + 1], 8), ir_pixels[r * 2]))
             to(r) == To(EEPROM, cal, ta, vir(r), vcp, r)
         IN  /\ temperatures_int' =
                    [i \in 0 .. Rows - 1 |-> [j \in 0 .. Cols - 1 |->
                        IF i * Cols + j < stop
                        THEN [k |-> "int10", of |-> to(ref_index(i, j))]
                        ELSE temperatures_int[i][j]]]
             /\ temperatures_flt' =
                    [i \in 0 .. Rows - 1 |-> [j \in 0 .. Cols - 1 |->
                        IF i * Cols + j < stop
                        THEN to(ref_index(i, j))
                        ELSE temperatures_flt[i][j]]]
             /\ px' = stop
             /\ pc' = "idle" /\ inRead' = FALSE
             /\ result' = IF stop = NPixels THEN "read_ok"
                          ELSE PixelFault(EEPROM, cal, ta,
                                          ref_index(stop \div Cols, stop % Cols))
             /\ tx' = <<>> /\ stages' = <<>>
             /\ UNCHANGED <<ncalls, lastCall, nfaults>>
    /\ UNCHANGED <<dev, bufs, ta, cal, resolution, vcp, hist, codec>>

Next ==
    \/ CallInit
    \/ LoopTest
    \/ ReadEeprom
    \/ WriteTrim
    \/ WriteConfig
    \/ RefreshReadConfig
    \/ RefreshWriteConfig
    \/ ReadBack
    \/ ComputeTa
    \/ Derive
    \/ CallReadIr
    \/ PollFlag
    \/ Reinit
    \/ FrameRead
    \/ CpRead
    \/ PixelLoop

Spec == Init /\ [][Next]_vars

(***************************************************************************)
(* Specifications for the pure parts.                                      *)
(***************************************************************************)
\* the four codecs applied to one drawn integer
CodecApply ==
    /\ ~cout.done
    /\ cout' = [u8 |-> _uint8_t(cin), i8 |-> _int8_t(cin), u16 |-> _uint16_t(cin),
                i16 |-> _int16_t(cin), done |-> TRUE]
    /\ UNCHANGED <<ctl, dev, nfaults, bufs, grids, ta, cal, resolution, vcp, px, tx, stages,
                   hist, cin>>

InitCodec ==
    /\ Constructed(8)
    /\ devEeprom = EepromGood
    /\ cin \in CodecInputs /\ cout = NoOut

SpecCodec == InitCodec /\ [][CodecApply]_vars

\* mlx90621_init on a driver constructed with any refresh rate
InitRate ==
    /\ \E r \in Rates : Constructed(r)
    /\ devEeprom = EepromGood
    /\ cin = 0 /\ cout = NoOut

NextInit ==
    \/ CallInit
    \/ LoopTest
    \/ ReadEeprom
    \/ WriteTrim
    \/ WriteConfig
    \/ RefreshReadConfig
    \/ RefreshWriteConfig
    \/ ReadBack
    \/ ComputeTa
    \/ Derive

SpecRate == InitRate /\ [][NextInit]_vars

(***************************************************************************)
(* Properties.                                                             *)
(***************************************************************************)
\* lo <= t <= hi for a real ambient value t, decided with the integer square
\* root of d rather than by squaring: (-b + sqrt(d)) / (2a) + 25 lies in
\* [lo, hi] iff sqrt(d) lies between 2a(lo - 25) + b and 2a(hi - 25) + b
SqrtGe(d, n) == n <= ISqrt(d)

SqrtLe(d, n) == ISqrt(d) < n \/ (ISqrt(d) = n /\ n * n = d)

TaWithin(t, lo, hi) ==
    IF t.k = "int" THEN lo <= t.b /\ t.b <= hi
    ELSE /\ t.k = "num"
         /\ LET L == 2 * t.a * (lo - 25) + t.b
                H == 2 * t.a * (hi - 25) + t.b
            IN  IF t.a > 0 THEN SqrtGe(t.d, L) /\ SqrtLe(t.d, H)
                ELSE SqrtLe(t.d, L) /\ SqrtGe(t.d, H)

InitLoopPcs == {"i_test", "i_eeprom", "i_trim", "i_config", "i_rate_rd", "i_rate_wr",
                "i_readback", "i_ta"}

InitJustReturned ==
    \/ pc = "idle" /\ lastCall = "init" /\ result = "init_ok"
    \/ pc = "r_por" /\ reinitDone

\* C1: whenever mlx90621_init has left its retry loop or has returned
\* normally, self.ta is a real number with -40 <= self.ta <= 60.
C1_InitReturnsInRange ==
    (pc = "i_derive" \/ InitJustReturned) => TaWithin(ta, -40, 60)

\* an init has returned after rejecting at least one computed temperature
C1_Witness ==
    /\ pc = "idle" /\ lastCall = "init" /\ result = "init_ok" /\ retried
    /\ ta.k = "num" /\ TaWithin(ta, -40, 60)

FullInitRun == <<"wait1s", "eeprom", "trim", "config", "refresh", "readback", "ta", "derive">>

\* C2: inside mlx90621_read_ir the frame read command [0x02, 0x00, 0x01, 0x40]
\* is sent only when the last poll of this call read the flag bit as set, and
\* a poll that read it clear is followed by the one-second wait and one
\* complete initialisation run before the next poll or the frame read.
C2_FrameReadAfterSetPoll ==
    /\ pc = "r_frame" => lastPoll = "set" /\ tx = <<read_config>>
    /\ pc = "r_cp" => lastPoll = "set" /\ tx = <<read_config, <<2, 0, 1, 64>>>>
    /\ pc = "r_pixel" => lastPoll = "set"
    /\ pc = "r_wait" => lastPoll = "clear"
    /\ (pc = "r_por" /\ lastPoll = "clear") => stages = FullInitRun
    /\ (pc \in InitLoopPcs \cup {"i_derive"} /\ inRead) => lastPoll = "clear"

C2_Witness == pc = "r_cp" /\ sawClear /\ reinitDone

\* C3 as claimed: a call of mlx90621_read_ir that returns data after a poll
\* that read the flag bit as set has run an initialisation in that call.
C3_SetFlagReinitialises ==
    (pc = "idle" /\ lastCall = "read_ir" /\ result = "read_ok" /\ lastPoll = "set")
        => reinitDone

GridCells == {temperatures_flt[i][j] : i \in 0 .. Rows - 1, j \in 0 .. Cols - 1}

\* C3 amended: a call of mlx90621_read_ir that returns data has run an
\* initialisation in that call exactly when some poll of the call read the
\* flag bit as clear, and then every cell of the returned grid is computed
\* from the coefficient set and ambient temperature that initialisation left.
C3_ClearFlagReinitialises ==
    (pc = "idle" /\ lastCall = "read_ir" /\ result = "read_ok") =>
        /\ reinitDone = sawClear
        /\ sawClear =>
              /\ calOfSnap /\ taOfSnap
              /\ \A cell \in GridCells : cell.k = "to" /\ cell.cal = cal /\ cell.ta = ta

C3_Witness ==
    /\ pc = "idle" /\ lastCall = "read_ir" /\ result = "read_ok"
    /\ sawClear /\ reinitDone

\* C4: a call of mlx90621_read_ir that ends with an exception leaves both
\* temperature grids as they were when the call began.
C4_NoPartialFrame ==
    (pc = "idle" /\ lastCall = "read_ir" /\ result \notin {"none", "read_ok"})
        => <<temperatures_int, temperatures_flt>> = gridAtCall

\* C5: a negative discriminant ends in an error: self.ta never holds the
\* complex value of the square root of a negative number.
C5_NegativeDiscriminantRaises == ta.k # "complex"

\* C6: each codec returns the unique value of its range congruent to its
\* input modulo the width's period.
C6_CodecsModular ==
    cout.done =>
        /\ cout.u8 = cin % 256
        /\ cout.i8 = ((cin + 128) % 256) - 128
        /\ cout.u16 = cin % 65536
        /\ cout.i16 = ((cin + 32768) % 65536) - 32768

RateCode ==
    (512 :> 0) @@ (256 :> 6) @@ (128 :> 7) @@ (64 :> 8) @@ (32 :> 9) @@ (16 :> 10)
    @@ (8 :> 11) @@ (4 :> 12) @@ (2 :> 13) @@ (1 :> 14) @@ (0 :> 15)

ClaimedRefreshWrite(hz) ==
    LET code == IF hz \in DOMAIN RateCode THEN RateCode[hz] ELSE 11
        lsb == 48 + code
        msb == 70
    IN  <<3, (lsb - 85) % 256, lsb, (msb - 85) % 256, msb>>

\* C7: for every refresh rate, recognised or not, what
\* _mlx90621_set_refresh_hz has written when it returns is the configuration
\* read command followed by exactly one configuration write, the one the
\* rate table prescribes; it fails only when the bus does.
C7_RefreshWrite ==
    /\ [](pc = "i_readback" =>
            /\ Len(tx) = 4
            /\ tx[3] = <<2, 146, 0, 1>>
            /\ tx[4] = ClaimedRefreshWrite(rate)
            /\ Cardinality({n \in 3 .. 4 : tx[n][1] = 3}) = 1)
    /\ [][pc = "i_rate_rd" => (pc' = "i_rate_wr" \/ result' = "OSError")]_vars
    /\ [][pc = "i_rate_wr" => (pc' = "i_readback" \/ result' = "OSError")]_vars

C7_Witness == pc = "i_readback" /\ rate = 1024

\* C8: the retry loop has no bound and no failure outcome of its own: a loop
\* test on an in-range real self.ta goes straight to the derivation, a test
\* on an out-of-range real self.ta starts the next attempt without reporting
\* anything or assigning a coefficient, and the derivation is entered from
\* nowhere else.
C8_RetryLoop ==
    /\ [][(pc = "i_test" /\ ta.k # "complex") =>
            IF TaWithin(ta, -40, 60)
            THEN pc' = "i_derive" /\ result' = result /\ cal' = cal
            ELSE pc' = "i_eeprom" /\ result' = result /\ cal' = cal
                 /\ nderive' = nderive /\ (inRead' = inRead)]_vars
    /\ [][pc' = "i_derive" => (pc = "i_test" /\ TaWithin(ta, -40, 60))]_vars

\* an out-of-range attempt is being retried
C8_Witness ==
    /\ pc = "i_eeprom" /\ retried /\ ta.k = "num" /\ ~TaWithin(ta, -40, 60)

\* C9: the coefficient set is assigned once per returning mlx90621_init,
\* after the loop, from the snapshot and the resolution of the last attempt;
\* the attempts assign none of it and the pixel loop leaves it alone.
C9_CoefficientsOncePerInit ==
    /\ [](InitJustReturned =>
            /\ nderive = 1 /\ calOfSnap /\ cal.set
            /\ cal.resolution_comp = 2 ^ (3 - ((config[0] \div 16) % 4))
            /\ cal.emissivity = <<256 * EEPROM[229] + EEPROM[228], 32768>>
            /\ cal.tgc[1] = ((EEPROM[216] + 128) % 256) - 128)
    /\ [](pc \in InitLoopPcs \cup {"i_derive"} => nderive = 0)
    /\ [][(pc \in InitLoopPcs) => (cal' = cal)]_vars
    /\ [][pc = "r_pixel" => (cal' = cal)]_vars

\* an init that rejected a computed temperature has returned with the
\* coefficients of its last attempt, read at resolution 3
C9_Witness ==
    /\ pc = "idle" /\ lastCall = "init" /\ result = "init_ok" /\ nderive = 1
    /\ retried /\ cal.set /\ cal.resolution_comp = 1

\* C10: once some mlx90621_init has returned, whenever the pixel loop of
\* mlx90621_read_ir runs, self.ta is real and within [-40, 60] and self.ta,
\* the EEPROM snapshot and the coefficient set stem from one initialisation
\* attempt.
C10_ConsistentCalibration ==
    (pc = "r_pixel" /\ everInit) =>
        /\ TaWithin(ta, -40, 60)
        /\ taOfSnap /\ calOfSnap

====
